---- MODULE Spec2Model ----
(***************************************************************************)
(* Market-data acquisition layer of Stock_Analyzer.                        *)
(*                                                                         *)
(*   backend/utils/rate_limiter.py            RateLimiter, RetryHandler    *)
(*   backend/utils/cache_manager.py           CacheManager                 *)
(*   backend/modules/data_fetcher_ultimate.py UltimateTaiwanStockDataFetcher*)
(*   backend/modules/data_fetcher_enhanced.py EnhancedTaiwanStockDataFetcher*)
(*   backend/modules/data_fetcher_smart.py    TaiwanStockDataFetcher       *)
(*                                                                         *)
(* Time is a whole-second clock `now`.  A time.sleep(s) moves the clock to *)
(* at least the wake-up time; the environment may let more time pass.      *)
(* The specifications share the definitions:                               *)
(*   SpecLimiter   threads calling one RateLimiter                         *)
(*   SpecUltimate  one caller of UltimateTaiwanStockDataFetcher            *)
(*   SpecEnhanced  one caller of EnhancedTaiwanStockDataFetcher + cache    *)
(*   SpecSmart     one caller of the smart TaiwanStockDataFetcher          *)
(*   SpecBackoff   429 signals reaching one RateLimiter over hours         *)
(*   SpecUltimate429        the Ultimate fetcher, every download a 429     *)
(*   SpecEnhancedReachable  the Enhanced fetcher, the upstream answering   *)
(*   SpecRetry     one caller of RetryHandler.execute_with_retry           *)
(*   SpecCache     callers of CacheManager.get, set and cleanup_expired    *)
(*   SpecGenerators  the two reference-data generators                     *)
(*   SpecFetchers  threads calling the Ultimate fetcher, with fairness     *)
(*   SpecUltimateAnswering  the Ultimate fetcher, every reply non-empty    *)
(*   SpecRows      rows written by _ref_data of the Enhanced fetcher       *)
(*   SpecRotator   threads calling UserAgentRotator.get_next               *)
(*   SpecSingleton threads constructing CacheManager()                     *)
(*   SpecPrices    one caller of TaiwanStockDataFetcher (data_fetcher.py)  *)
(*   SpecStock     add_price calls on one Stock                            *)
(***************************************************************************)
EXTENDS Integers, Sequences, FiniteSets, TLC

VARIABLES
    now,             \* wall clock, seconds (datetime.now() / time.time())
    \* ---- RateLimiter (rate_limiter.py:46-54) ----
    request_times,   \* deque of admission timestamps
    backoff_until,   \* Optional[datetime]
    last_429_time,   \* Optional[datetime]
    lock,            \* RateLimiter.lock: 0 = free, else the holding thread
    \* ---- threads calling the limiter ----
    tpc,             \* position of each thread inside wait_if_needed
    tWake,           \* wake-up time of the sleep a thread is in
    tobs,            \* per-thread observations of the call in progress
    admitted,        \* times at which wait_if_needed calls returned (trailing window)
    first429,        \* time of the first record_429_error since construction / reset
    \* ---- UltimateTaiwanStockDataFetcher (data_fetcher_ultimate.py) ----
    yf_available,    \* module flag _yf_available
    finmind_on,      \* self.finmind_fetcher is not None
    stats,           \* self.stats
    u_pc,            \* position inside get_stock_price
    u_key,           \* (stock_id, days) of the call in progress
    u_sfx,           \* index of the suffix being tried
    u_attempt,       \* attempt of RetryHandler.execute_with_retry
    u_tier1,         \* what _try_yfinance_with_protection returned
    u_tier2,         \* what _try_finmind returned
    u_ret,           \* what get_stock_price returned
    u_out,           \* "none", "returned" or "raised"
    trace,           \* limiter and provider calls made by the call in progress
    u_warm,          \* the previous call for this key returned real data within the TTL
    u_prev,          \* key and return time of the last call that returned real data
    u_calls,         \* get_stock_price calls so far
    \* ---- CacheManager and EnhancedTaiwanStockDataFetcher ----
    cache,           \* CacheManager._cache
    use_cache,       \* self.use_cache and cache_manager
    e_pc,            \* position inside get_stock_price
    e_key,           \* (stock_id, days) of the call in progress
    e_attempt,       \* attempt of _try_online_with_retry
    e_ret,           \* what get_stock_price returned
    e_out,           \* "none", "returned" or "raised"
    e_hit,           \* the call in progress was served from the cache
    e_start,         \* time at which the call in progress started
    e_provider,      \* yf.download calls made by the call in progress
    e_last,          \* the latest store: key, start of the storing call, store time, data
    e_calls,         \* get_stock_price calls so far
    \* ---- TaiwanStockDataFetcher (data_fetcher_smart.py) ----
    use_real_data,   \* self.use_real_data
    last_real_data_time, \* self.last_real_data_time
    s_ret,           \* what get_stock_price returned
    s_out,           \* "none", "returned" or "raised"
    \* ---- one RetryHandler.execute_with_retry(func) call ----
    r_max,           \* self.max_retries of the handler
    r_pc,            \* "idle", "running" or "done"
    r_attempt,       \* loop variable attempt
    r_calls,         \* invocations of func made by the call
    r_sleeps,        \* time.sleep() calls made by the call
    r_errs,          \* the exceptions func raised, in order
    r_out,           \* "none", "returned" or "raised"
    r_val,           \* the value returned or the exception raised
    \* ---- callers of the CacheManager singleton ----
    c_op,            \* the latest get / set / cleanup_expired and what it returned
    c_time,          \* current_time read by a cleanup_expired() waiting for the lock
    \* ---- the reference-data generators ----
    g_hash,          \* hash() of each symbol string in this process
    g_first,         \* the first generator call: generator, input, output
    g_last,          \* the latest generator call: generator, input, output
    \* ---- threads calling UltimateTaiwanStockDataFetcher.get_stock_price ----
    fetch,           \* position of each thread inside get_stock_price
    \* ---- EnhancedTaiwanStockDataFetcher._ref_data, one row ----
    bar,             \* the row appended to data, prices in thousandths
    \* ---- UserAgentRotator (rate_limiter.py:149) ----
    current_index,   \* self.current_index
    ua_lock,         \* self.lock: 0 = free, else the holding thread
    ua_pc,           \* position of each thread inside get_next()
    ua_local,        \* the local variable ua of each thread
    ua_log,          \* the values get_next() returned, in the order of the calls
    \* ---- CacheManager construction (cache_manager.py:12) ----
    cm_instance,     \* cls._instance: 0 = None, else the object
    cm_made,         \* objects created by super().__new__(cls)
    cm_initialized,  \* _initialized of the instance: "unset", "False" or "True"
    cm_store,        \* keys of self._cache of the instance
    cm_lock,         \* CacheManager._lock: 0 = free, else the holding thread
    ctor,            \* position of each thread inside CacheManager()
    \* ---- TaiwanStockDataFetcher (data_fetcher.py) ----
    d_cache,         \* self._cache: key -> (cached_time, cached_data)
    d_op,            \* the latest get_stock_price call and what it did
    \* ---- Stock (domain/entities/stock.py) ----
    price_history    \* Stock.price_history

limVars == <<request_times, backoff_until, last_429_time, lock>>
thrVars == <<tpc, tWake, tobs, admitted, first429>>
ultVars == <<yf_available, finmind_on, stats, u_pc, u_key, u_sfx, u_attempt,
             u_tier1, u_tier2, u_ret, u_out, trace, u_warm, u_prev, u_calls>>
enhVars == <<cache, use_cache, e_pc, e_key, e_attempt, e_ret, e_out, e_hit, e_start,
             e_provider, e_last, e_calls>>
smtVars == <<use_real_data, last_real_data_time, s_ret, s_out>>
rtyVars == <<r_max, r_pc, r_attempt, r_calls, r_sleeps, r_errs, r_out, r_val>>
cmgVars == <<c_op, c_time>>
genVars == <<g_hash, g_first, g_last>>
rotVars == <<current_index, ua_lock, ua_pc, ua_local, ua_log>>
ctrVars == <<cm_instance, cm_made, cm_initialized, cm_store, cm_lock, ctor>>
dfVars == <<d_cache, d_op>>
extVars == <<bar, rotVars, ctrVars, dfVars, price_history>>
auxVars == <<rtyVars, cmgVars, genVars, fetch, extVars>>
vars == <<now, limVars, thrVars, ultVars, enhVars, smtVars, auxVars>>

\* ------------------------------------------------------------------------
\* Program constants
\* ------------------------------------------------------------------------
None == -1                      \* Python None for Optional[datetime]

time_window == 60               \* rate_limiter.py:279
min_delay == 2                  \* rate_limiter.py:280
max_delay == 5                  \* rate_limiter.py:281
base_backoff == 60              \* rate_limiter.py:119
max_backoff == 600              \* rate_limiter.py:122
reset_window == 3600            \* rate_limiter.py:134

\* ------------------------------------------------------------------------
\* Bounds of the exploration
\* ------------------------------------------------------------------------
NThreads == 2
max_requests == 2               \* RateLimiter(max_requests=...), rate_limiter.py:32,46
MaxTime == 70                   \* no call and no idle gap starts after this time

Threads == 1..NThreads
IdleGaps == {30, time_window}
Jitters == {min_delay, max_delay}

Max(a, b) == IF a >= b THEN a ELSE b
Min(a, b) == IF a <= b THEN a ELSE b

RECURSIVE Pow2(_)
Pow2(n) == IF n = 0 THEN 1 ELSE 2 * Pow2(n - 1)

\* ------------------------------------------------------------------------
\* RateLimiter
\* ------------------------------------------------------------------------
\* with self.lock: the block is entered only while no thread holds the lock
LockFreeMutant(l) == TRUE
LockFree(l) == l = 0

\* while self.request_times and self.request_times[0] < cutoff_time: popleft()
PruneMutant(times, cutoff) == times
RECURSIVE Prune(_, _)
Prune(times, cutoff) ==
    IF times # <<>> /\ Head(times) < cutoff
    THEN Prune(Tail(times), cutoff)
    ELSE times

\* if self.backoff_until and now < self.backoff_until
BackoffActive(bu, t) == bu # None /\ t < bu

\* if len(self.request_times) >= self.max_requests
WindowFullMutant(times) == Len(times) > max_requests
WindowFull(times) == Len(times) >= max_requests

\* wait_seconds = max(0, (oldest + window - now)) + 1
WindowWait(times, t) == Max(0, times[1] + time_window - t) + 1

\* wait_seconds = (self.backoff_until - now).total_seconds()
BackoffWaitMutant(bu, t) == 0
BackoffWait(bu, t) == bu - t

\* _get_429_count, evaluated at time t
Get429Count(l429, t) ==
    IF l429 = None THEN 0
    ELSE IF t - l429 > reset_window THEN 0
    ELSE 1

\* backoff_seconds of record_429_error, after last_429_time := now
BackoffSeconds(bu, l429, t) ==
    IF bu = None THEN base_backoff
    ELSE Min(max_backoff, base_backoff * Pow2(Get429Count(l429, t)))

\* What an observer notes when a call reads the limiter state at time t:
\* the admissions recorded within the trailing window, independent of Prune.
Trailing(times, t) == {i \in DOMAIN times : times[i] >= t - time_window}
OldestTrailing(times, t) ==
    IF Cardinality(Trailing(times, t)) >= max_requests /\ ~BackoffActive(backoff_until, t)
    THEN times[CHOOSE i \in Trailing(times, t) : \A j \in Trailing(times, t) : i <= j]
    ELSE None

NoObs == [seenBackoff |-> None, dueFirst |-> None, fullOldest |-> None]

\* the return times that lie within time_window of the newest one
Recent(rets, t) == SelectSeq(rets, LAMBDA x : x >= t - time_window)

InitLimiter ==
    /\ request_times = <<>>
    /\ backoff_until = None
    /\ last_429_time = None
    /\ lock = 0

\* a thread outside get_stock_price
NoFetch == [pc |-> "none", sfx |-> 1, attempt |-> 0, fails |-> 0]

InitFetch == fetch = [t \in Threads |-> NoFetch]

\* a thread may call wait_if_needed() on its own, or from get_stock_price
MayCall(t) == fetch[t].pc = "tier1" \/ (fetch[t].pc \in {"none", "done"} /\ now < MaxTime)

\* wait_if_needed() returns to the thread: get_stock_price goes on to download
Returned(t) == [fetch EXCEPT ![t].pc = IF @ = "tier1" THEN "download" ELSE @]

InitThreads ==
    /\ tpc = [t \in Threads |-> "idle"]
    /\ tWake = [t \in Threads |-> None]
    /\ tobs = [t \in Threads |-> NoObs]
    /\ admitted = <<>>
    /\ first429 = None

\* what the caller can expect when it calls wait_if_needed() at time `now`
Expect ==
    [seenBackoff |-> IF BackoffActive(backoff_until, now) THEN backoff_until ELSE None,
     dueFirst |-> IF first429 = now /\ last_429_time = now THEN now + base_backoff ELSE None,
     fullOldest |-> None]

\* with self.lock: now = datetime.now(); steps 1-3 up to the first sleep
Enter(t, obs) ==
    /\ LockFree(lock)
    /\ lock' = t
    /\ IF BackoffActive(backoff_until, now)
       THEN /\ tWake' = [tWake EXCEPT ![t] = now + BackoffWait(backoff_until, now)]
            /\ tpc' = [tpc EXCEPT ![t] = "w_backoff"]
            /\ tobs' = [tobs EXCEPT ![t] = obs]
            /\ UNCHANGED request_times
       ELSE LET pruned == Prune(request_times, now - time_window) IN
            /\ request_times' = pruned
            /\ tobs' = [tobs EXCEPT ![t] =
                           [obs EXCEPT !.fullOldest = OldestTrailing(request_times, now)]]
            /\ IF WindowFull(pruned)
               THEN /\ tWake' = [tWake EXCEPT ![t] = now + WindowWait(pruned, now)]
                    /\ tpc' = [tpc EXCEPT ![t] = "w_window"]
               ELSE \E d \in Jitters :
                    /\ tWake' = [tWake EXCEPT ![t] = now + d]
                    /\ tpc' = [tpc EXCEPT ![t] = "w_jitter"]
    /\ UNCHANGED <<now, backoff_until, last_429_time, admitted, first429, ultVars, enhVars, smtVars, auxVars>>

\* a thread calls wait_if_needed() while the lock is free
L_Call(t) ==
    /\ tpc[t] = "idle"
    /\ MayCall(t)
    /\ Enter(t, Expect)

\* a thread calls wait_if_needed() while another thread holds the lock
L_Queue(t) ==
    /\ tpc[t] = "idle"
    /\ MayCall(t)
    /\ lock # 0
    /\ tpc' = [tpc EXCEPT ![t] = "w_lock"]
    /\ tobs' = [tobs EXCEPT ![t] = Expect]
    /\ UNCHANGED <<now, limVars, tWake, admitted, first429, ultVars, enhVars, smtVars, auxVars>>

\* the queued thread obtains the lock
L_Acquire(t) ==
    /\ tpc[t] = "w_lock"
    /\ Enter(t, tobs[t])

\* time.sleep(wait_seconds); return      (backoff path, lines 73-74)
L_BackoffWake(t) ==
    /\ tpc[t] = "w_backoff"
    /\ now' = Max(now, tWake[t])
    /\ lock' = 0
    /\ tpc' = [tpc EXCEPT ![t] = "idle"]
    /\ tobs' = [tobs EXCEPT ![t] = NoObs]
    /\ admitted' = Recent(Append(admitted, now'), now')
    /\ tWake' = [tWake EXCEPT ![t] = None]
    /\ fetch' = Returned(t)
    /\ UNCHANGED <<request_times, backoff_until, last_429_time, first429, ultVars, enhVars,
                   smtVars, extVars, rtyVars, cmgVars, genVars>>

\* time.sleep(wait_seconds); prune again; draw the jitter   (lines 89-97)
L_WindowWake(t) ==
    /\ tpc[t] = "w_window"
    /\ now' = Max(now, tWake[t])
    /\ request_times' = Prune(request_times, now' - time_window)
    /\ \E d \in Jitters : tWake' = [tWake EXCEPT ![t] = now' + d]
    /\ tpc' = [tpc EXCEPT ![t] = "w_jitter"]
    /\ UNCHANGED <<backoff_until, last_429_time, lock, tobs, admitted, first429, ultVars, enhVars, smtVars, auxVars>>

\* time.sleep(delay); self.request_times.append(datetime.now())   (lines 98-101)
L_JitterWake(t) ==
    /\ tpc[t] = "w_jitter"
    /\ now' = Max(now, tWake[t])
    /\ request_times' = Append(request_times, now')
    /\ lock' = 0
    /\ tpc' = [tpc EXCEPT ![t] = "idle"]
    /\ tobs' = [tobs EXCEPT ![t] = NoObs]
    /\ admitted' = Recent(Append(admitted, now'), now')
    /\ tWake' = [tWake EXCEPT ![t] = None]
    /\ fetch' = Returned(t)
    /\ UNCHANGED <<backoff_until, last_429_time, first429, ultVars, enhVars, smtVars, extVars,
                   rtyVars, cmgVars, genVars>>

\* record_429_error(): runs under the lock, without sleeping
L_Record429(t) ==
    /\ tpc[t] = "idle"
    /\ LockFree(lock)
    /\ last_429_time' = now
    /\ backoff_until' = now + BackoffSeconds(backoff_until, last_429_time', now)
    /\ first429' = IF backoff_until = None THEN now ELSE first429
    /\ UNCHANGED <<now, request_times, lock, tpc, tWake, tobs, admitted, ultVars, enhVars, smtVars, auxVars>>

\* reset(): runs under the lock
L_Reset(t) ==
    /\ tpc[t] = "idle"
    /\ LockFree(lock)
    /\ request_times' = <<>>
    /\ last_429_time' = None
    /\ backoff_until' = None
    /\ first429' = None
    /\ admitted' = <<>>
    /\ tobs' = [u \in Threads |-> [tobs[u] EXCEPT !.seenBackoff = None, !.dueFirst = None]]
    /\ UNCHANGED <<now, lock, tpc, tWake, ultVars, enhVars, smtVars, auxVars>>

\* the environment lets time pass
Tick ==
    /\ \E d \in IdleGaps : now + d <= MaxTime /\ now' = now + d
    /\ UNCHANGED <<limVars, thrVars, ultVars, enhVars, smtVars, auxVars>>


\* ------------------------------------------------------------------------
\* Data frames, symbols and upstream replies
\* ------------------------------------------------------------------------
\* A DataFrame: its number of rows, the reply its values come from, and the
\* metadata (DataFrame.attrs) a caller could inspect.
Frame(n, src) == [rows |-> n, src |-> src, attrs |-> {}]
EmptyFrame == Frame(0, "none")                 \* pd.DataFrame()
IsEmpty(df) == df.rows = 0                     \* df.empty

\* df.tail(days), days >= 0
TailOf(df, days) == IF Min(df.rows, days) = 0 THEN EmptyFrame
                    ELSE [df EXCEPT !.rows = Min(df.rows, days)]

\* stock symbols, as the characters of the string
Symbols == {<<"2", "3", "3", "0">>, <<"T", "S", "M", "C">>}
Days == {0, 30}
Keys == [sym : Symbols, days : Days]
NoKey == [sym |-> <<>>, days |-> 0]

\* what one yf.download() call does: raise, or return a frame of n rows
YfErrors == {"429 Too Many Requests", "timeout", "malformed"}
YfRows == {0, 3, 40}
\* what one FinMind request returns (FinMindDataFetcher catches its errors)
FinMindRows == {0, 20}

Suffixes == <<".TW", ".TWO">>                  \* data_fetcher_ultimate.py:164

\* ------------------------------------------------------------------------
\* RetryHandler                                         rate_limiter.py:190
\* ------------------------------------------------------------------------
max_retries == 3                                       \* rate_limiter.py:285
retry_base_delay == 1                                  \* rate_limiter.py:200
retry_max_delay == 60                                  \* rate_limiter.py:201

\* delay = min(base_delay * exponential_base ** attempt, max_delay); the
\* jitter of at most 10% stays below one tick of the whole-second clock
RetryDelay(attempt) == Min(retry_base_delay * Pow2(attempt), retry_max_delay)

\* if attempt >= self.max_retries   (a handler built with max_retries = mr)
ExhaustedMutant(attempt, mr) == attempt >= mr - 1
Exhausted(attempt, mr) == attempt >= mr

\* the same test in the global handler, RetryHandler(max_retries=3)
RetriesExhausted(attempt) == Exhausted(attempt, max_retries)

\* last_exception = e, assigned at every failure: the one that is raised
LastExceptionMutant(errs) == errs[1]
LastException(errs) == errs[Len(errs)]

MaxRetriesTried == 3            \* handlers with max_retries in 0..MaxRetriesTried
RetryErrors == {"ConnectionError", "429 Too Many Requests"}
RetryValues == {"df"}

InitRetry ==
    /\ r_max = 0
    /\ r_pc = "idle"
    /\ r_attempt = 0
    /\ r_calls = 0
    /\ r_sleeps = 0
    /\ r_errs = <<>>
    /\ r_out = "none"
    /\ r_val = "none"

\* RetryHandler(max_retries=mr).execute_with_retry(func) is called
R_Execute(mr) ==
    /\ r_pc \in {"idle", "done"}
    /\ now < MaxTime
    /\ r_max' = mr
    /\ r_pc' = "running"
    /\ r_attempt' = 0
    /\ r_calls' = 0
    /\ r_sleeps' = 0
    /\ r_errs' = <<>>
    /\ r_out' = "none"
    /\ r_val' = "none"
    /\ UNCHANGED <<now, limVars, thrVars, ultVars, enhVars, smtVars, extVars, cmgVars, genVars, fetch>>

\* return func(*args, **kwargs)
R_FuncReturns(v) ==
    /\ r_pc = "running"
    /\ r_calls' = r_calls + 1
    /\ r_out' = "returned"
    /\ r_val' = v
    /\ r_pc' = "done"
    /\ UNCHANGED <<now, limVars, thrVars, ultVars, enhVars, smtVars, extVars, cmgVars, genVars, fetch,
                   r_max, r_attempt, r_sleeps, r_errs>>

\* func raises e: raise it at the last attempt, else sleep and loop
R_FuncRaises(e) ==
    /\ r_pc = "running"
    /\ r_calls' = r_calls + 1
    /\ r_errs' = Append(r_errs, e)
    /\ IF Exhausted(r_attempt, r_max)
       THEN /\ r_out' = "raised"
            /\ r_val' = LastException(r_errs')
            /\ r_pc' = "done"
            /\ UNCHANGED <<now, r_attempt, r_sleeps>>
       ELSE /\ now' = now + RetryDelay(r_attempt)
            /\ r_sleeps' = r_sleeps + 1
            /\ r_attempt' = r_attempt + 1
            /\ UNCHANGED <<r_out, r_val, r_pc>>
    /\ UNCHANGED <<limVars, thrVars, ultVars, enhVars, smtVars, extVars, cmgVars, genVars, fetch, r_max>>

\* ------------------------------------------------------------------------
\* UltimateTaiwanStockDataFetcher
\* ------------------------------------------------------------------------
default_ttl == 300                                     \* cache_manager.py:32
min_rows == 5                                          \* data_fetcher_ultimate.py:182
MaxCalls == 2

InitStats == [yfinance_success |-> 0, yfinance_429 |-> 0, yfinance_other_error |-> 0,
              finmind_success |-> 0, finmind_error |-> 0, reference_used |-> 0]

InitUltimate ==
    /\ stats = InitStats
    /\ u_pc = "idle"
    /\ u_key = NoKey
    /\ u_sfx = 1
    /\ u_attempt = 0
    /\ u_tier1 = EmptyFrame
    /\ u_tier2 = EmptyFrame
    /\ u_ret = EmptyFrame
    /\ u_out = "none"
    /\ trace = <<>>
    /\ u_warm = FALSE
    /\ u_prev = [key |-> NoKey, at |-> None]
    /\ u_calls = 0

\* RateLimiter.wait_if_needed() run to completion by the only caller
WaitIfNeeded ==
    IF BackoffActive(backoff_until, now)
    THEN /\ now' = now + BackoffWait(backoff_until, now)
         /\ UNCHANGED request_times
    ELSE LET pruned == Prune(request_times, now - time_window)
             woke == IF WindowFull(pruned) THEN now + WindowWait(pruned, now) ELSE now
             kept == IF WindowFull(pruned) THEN Prune(pruned, woke - time_window) ELSE pruned
         IN \E d \in Jitters :
               /\ now' = woke + d
               /\ request_times' = Append(kept, now')

\* if not df.empty   (the test get_stock_price applies to a tier's result)
TierHitMutant(df) == IsEmpty(df)
TierHit(df) == ~IsEmpty(df)

\* get_stock_price(stock_id, days) is called
U_Call(sym, days) ==
    /\ u_pc \in {"idle", "done"}
    /\ u_calls < MaxCalls
    /\ u_calls' = u_calls + 1
    /\ u_key' = [sym |-> sym, days |-> days]
    /\ u_warm' = (u_prev.key = u_key' /\ now - u_prev.at < default_ttl)
    /\ u_pc' = "tier1"
    /\ u_sfx' = 1
    /\ u_attempt' = 0
    /\ u_tier1' = EmptyFrame
    /\ u_tier2' = EmptyFrame
    /\ u_ret' = EmptyFrame
    /\ u_out' = "none"
    /\ trace' = <<>>
    /\ UNCHANGED <<now, limVars, thrVars, yf_available, finmind_on, stats, u_prev,
                   enhVars, smtVars, auxVars>>

\* _try_yfinance_with_protection: if not _yf_available: return pd.DataFrame()
U_YfUnavailable ==
    /\ u_pc = "tier1"
    /\ ~yf_available
    /\ u_pc' = "tier1_done"
    /\ UNCHANGED <<now, limVars, thrVars, yf_available, finmind_on, stats, u_key, u_sfx,
                   u_attempt, u_tier1, u_tier2, u_ret, u_out, trace, u_warm, u_prev, u_calls,
                   enhVars, smtVars, auxVars>>

\* _try_yfinance_with_protection: self.rate_limiter.wait_if_needed()
U_Wait ==
    /\ u_pc = "tier1"
    /\ yf_available
    /\ WaitIfNeeded
    /\ trace' = Append(trace, "wait")
    /\ u_pc' = "download"
    /\ UNCHANGED <<backoff_until, last_429_time, lock, thrVars, yf_available, finmind_on,
                   stats, u_key, u_sfx, u_attempt, u_tier1, u_tier2, u_ret, u_out,
                   u_warm, u_prev, u_calls,
                   enhVars, smtVars, auxVars>>

\* except Exception: continue / end of the suffix loop: return pd.DataFrame()
NextSuffix ==
    /\ u_attempt' = 0
    /\ IF u_sfx < Len(Suffixes)
       THEN u_sfx' = u_sfx + 1 /\ u_pc' = "download" /\ UNCHANGED u_tier1
       ELSE u_sfx' = u_sfx /\ u_pc' = "tier1_done" /\ u_tier1' = EmptyFrame

\* one download_func() call inside execute_with_retry raises
U_DownloadFails(err) ==
    /\ u_pc = "download"
    /\ trace' = Append(trace, "yf" \o Suffixes[u_sfx])
    /\ IF err = "malformed"
       THEN \* the reply comes back but _format_yfinance_dataframe raises KeyError
            NextSuffix /\ UNCHANGED now
       ELSE IF RetriesExhausted(u_attempt)
            THEN NextSuffix /\ UNCHANGED now
            ELSE /\ now' = now + RetryDelay(u_attempt)
                 /\ u_attempt' = u_attempt + 1
                 /\ UNCHANGED <<u_sfx, u_pc, u_tier1>>
    /\ UNCHANGED <<limVars, thrVars, yf_available, finmind_on, stats, u_key,
                   u_tier2, u_ret, u_out, u_warm, u_prev, u_calls,
                   enhVars, smtVars, auxVars>>

\* one download_func() call returns a frame of n rows
U_DownloadReturns(n) ==
    /\ u_pc = "download"
    /\ trace' = Append(trace, "yf" \o Suffixes[u_sfx])
    /\ IF n > min_rows
       THEN /\ u_tier1' = TailOf(Frame(n, "yf" \o Suffixes[u_sfx]), u_key.days)
            /\ u_pc' = "tier1_done"
            /\ UNCHANGED <<u_sfx, u_attempt>>
       ELSE NextSuffix
    /\ UNCHANGED <<now, limVars, thrVars, yf_available, finmind_on, stats, u_key,
                   u_tier2, u_ret, u_out, u_warm, u_prev, u_calls,
                   enhVars, smtVars, auxVars>>

\* get_stock_price lines 123-129 and 137-139: first tier won, or no second tier
U_AfterTier1 ==
    /\ u_pc = "tier1_done"
    /\ IF TierHit(u_tier1)
       THEN /\ stats' = [stats EXCEPT !.yfinance_success = @ + 1]
            /\ u_ret' = u_tier1
            /\ u_out' = "returned"
            /\ u_prev' = [key |-> u_key, at |-> now]
            /\ u_pc' = "done"
       ELSE IF finmind_on
            THEN /\ u_pc' = "finmind"
                 /\ UNCHANGED <<stats, u_ret, u_out, u_prev>>
            ELSE /\ u_ret' = EmptyFrame
                 /\ u_out' = "returned"
                 /\ u_pc' = "done"
                 /\ UNCHANGED <<stats, u_prev>>
    /\ UNCHANGED <<now, limVars, thrVars, yf_available, finmind_on, u_key, u_sfx,
                   u_attempt, u_tier1, u_tier2, trace, u_warm, u_calls,
                   enhVars, smtVars, auxVars>>

\* lines 131-139: _try_finmind, whose fetcher returns n rows (0 on any error)
U_FinMind(n) ==
    /\ u_pc = "finmind"
    /\ trace' = Append(trace, "finmind")
    /\ u_tier2' = Frame(n, "finmind")
    /\ IF TierHit(u_tier2')
       THEN /\ stats' = [stats EXCEPT !.finmind_success = @ + 1]
            /\ u_ret' = u_tier2'
            /\ u_prev' = [key |-> u_key, at |-> now]
       ELSE /\ u_ret' = EmptyFrame
            /\ UNCHANGED <<stats, u_prev>>
    /\ u_out' = "returned"
    /\ u_pc' = "done"
    /\ UNCHANGED <<now, limVars, thrVars, yf_available, finmind_on, u_key, u_sfx,
                   u_attempt, u_tier1, u_warm, u_calls,
                   enhVars, smtVars, auxVars>>

\* ------------------------------------------------------------------------
\* CacheManager                                            cache_manager.py
\* ------------------------------------------------------------------------
\* cache_key = f"stock_price_{stock_id}_{days}": one key per (str, int) pair
CacheKey(sym, days) == <<"stock_price", sym, days>>

\* if time.time() > cache_entry['expires_at']
ExpiredMutant(entry, t) == t >= entry.expires_at
Expired(entry, t) == t > entry.expires_at

\* CacheManager.get(key) at time t: the value returned (EmptyFrame stands for None)
CacheHit(c, k, t) == k \in DOMAIN c /\ ~Expired(c[k], t)

\* CacheManager.get(key) at time t: the cache afterwards
CacheAfterGet(c, k, t) ==
    IF k \notin DOMAIN c THEN c
    ELSE IF Expired(c[k], t) THEN [x \in DOMAIN c \ {k} |-> c[x]]
    ELSE [c EXCEPT ![k].last_accessed = t, ![k].access_count = @ + 1]

\* CacheManager.set(key, data, ttl) at time t: the cache afterwards
CacheAfterSet(c, k, data, ttl, t) ==
    [x \in DOMAIN c \cup {k} |->
        IF x = k
        THEN [data |-> data, created_at |-> t, expires_at |-> t + ttl,
              last_accessed |-> t, access_count |-> 0]
        ELSE c[x]]

\* for key, entry in self._cache.items(): if current_time > entry['expires_at']
ExpiredKeysMutant(c, t) == {k \in DOMAIN c : t >= c[k].expires_at}
ExpiredKeys(c, t) == {k \in DOMAIN c : Expired(c[k], t)}

\* for key in expired_keys: del self._cache[key]
CacheWithout(c, keys) == [x \in DOMAIN c \ keys |-> c[x]]

MaxGets == 2                    \* hits counted per entry
CacheTtls == {0, 300}           \* ttl arguments of set()
NoValue == EmptyFrame           \* get() returned None
NoOp == [op |-> "none", key |-> <<>>, ret |-> NoValue, n |-> 0, exp |-> None, at |-> None]

InitCacheCallers ==
    /\ c_op = NoOp
    /\ c_time = None

\* CacheManager.get(key)
CM_Get(k) ==
    /\ k \in DOMAIN cache => cache[k].access_count < MaxGets
    /\ cache' = CacheAfterGet(cache, k, now)
    /\ c_op' = [op |-> "get", key |-> k,
                ret |-> IF CacheHit(cache, k, now) THEN cache[k].data ELSE NoValue,
                n |-> 0,
                exp |-> IF k \in DOMAIN cache THEN cache[k].expires_at ELSE None,
                at |-> now]
    /\ UNCHANGED <<now, limVars, thrVars, ultVars, use_cache, e_pc, e_key, e_attempt,
                   e_ret, e_out, e_hit, e_start, e_provider, e_last, e_calls,
                   smtVars, extVars, rtyVars, genVars, fetch, c_time>>

\* CacheManager.set(key, data, ttl)
CM_Set(k, data, ttl) ==
    /\ cache' = CacheAfterSet(cache, k, data, ttl, now)
    /\ c_op' = [op |-> "set", key |-> k, ret |-> NoValue, n |-> 0, exp |-> None,
                at |-> now]
    /\ UNCHANGED <<now, limVars, thrVars, ultVars, use_cache, e_pc, e_key, e_attempt,
                   e_ret, e_out, e_hit, e_start, e_provider, e_last, e_calls,
                   smtVars, extVars, rtyVars, genVars, fetch, c_time>>

\* cleanup_expired(), line 111: current_time = time.time(), before the lock
CM_CleanupRead ==
    /\ c_time = None
    /\ c_time' = now
    /\ UNCHANGED <<now, limVars, thrVars, ultVars, enhVars, smtVars, extVars, rtyVars, genVars, fetch,
                   c_op>>

\* cleanup_expired(), lines 114-122: the sweep under the lock and the return
CM_CleanupSweep ==
    /\ c_time # None
    /\ LET expired_keys == ExpiredKeys(cache, c_time) IN
       /\ cache' = CacheWithout(cache, expired_keys)
       /\ c_op' = [op |-> "cleanup", key |-> <<>>, ret |-> NoValue,
                   n |-> Cardinality(expired_keys), exp |-> None, at |-> c_time]
    /\ c_time' = None
    /\ UNCHANGED <<now, limVars, thrVars, ultVars, use_cache, e_pc, e_key, e_attempt,
                   e_ret, e_out, e_hit, e_start, e_provider, e_last, e_calls,
                   smtVars, extVars, rtyVars, genVars, fetch>>

\* ------------------------------------------------------------------------
\* EnhancedTaiwanStockDataFetcher                   data_fetcher_enhanced.py
\* ------------------------------------------------------------------------
api_max_retries == 3                                   \* settings.py:31
api_retry_delay == 2                                   \* settings.py:32
stock_price_ttl == 300                                 \* settings.py:25
MaxClock == 650                 \* no idle gap of the cache clock ends after this time
CacheGaps == {100, stock_price_ttl}

\* one yf.download() call: it raises, or returns a frame of `rows` rows
OnlineReplies == {[ok |-> FALSE, rows |-> 0], [ok |-> TRUE, rows |-> 0],
                  [ok |-> TRUE, rows |-> 40]}

Digits == {"0", "1", "2", "3", "4", "5", "6", "7", "8", "9"}
\* int(sid) succeeds (the symbols here carry no sign, blank or underscore)
IsInt(sym) == sym # <<>> /\ \A i \in DOMAIN sym : sym[i] \in Digits

NoStore == [key |-> <<>>, call |-> 0, t0 |-> None, ts |-> None, data |-> EmptyFrame]

InitEnhanced ==
    /\ cache = <<>>
    /\ e_pc = "idle"
    /\ e_key = NoKey
    /\ e_attempt = 0
    /\ e_ret = EmptyFrame
    /\ e_out = "none"
    /\ e_hit = FALSE
    /\ e_start = 0
    /\ e_provider = 0
    /\ e_last = NoStore
    /\ e_calls = 0

InitSmart ==
    /\ use_real_data = TRUE
    /\ last_real_data_time = None
    /\ s_ret = EmptyFrame
    /\ s_out = "none"

\* _try_online: the suffixes in order, the first non-empty reply wins; the
\* result and the number of downloads made
TryOnline(r1, r2, days) ==
    IF r1.ok /\ r1.rows > 0
    THEN [df |-> TailOf(Frame(r1.rows, "yf.TW"), days), n |-> 1]
    ELSE IF r2.ok /\ r2.rows > 0
         THEN [df |-> TailOf(Frame(r2.rows, "yf.TWO"), days), n |-> 2]
         ELSE [df |-> EmptyFrame, n |-> 2]

\* lines 108-112: store a non-empty result and return it
StoreAndReturn(df) ==
    /\ IF use_cache /\ ~IsEmpty(df)
       THEN /\ cache' = CacheAfterSet(cache, CacheKey(e_key.sym, e_key.days), df,
                                      stock_price_ttl, now')
            /\ e_last' = [key |-> CacheKey(e_key.sym, e_key.days), call |-> e_calls,
                          t0 |-> e_start, ts |-> now', data |-> df]
       ELSE UNCHANGED <<cache, e_last>>
    /\ e_ret' = df
    /\ e_out' = "returned"
    /\ e_pc' = "done"

\* get_stock_price lines 93-99: the cache is consulted first
E_Call(sym, days) ==
    /\ e_pc \in {"idle", "done"}
    /\ e_calls < MaxCalls
    /\ e_calls' = e_calls + 1
    /\ e_key' = [sym |-> sym, days |-> days]
    /\ e_start' = now
    /\ e_provider' = 0
    /\ e_attempt' = 0
    /\ IF use_cache
       THEN /\ cache' = CacheAfterGet(cache, CacheKey(sym, days), now)
            /\ e_hit' = CacheHit(cache, CacheKey(sym, days), now)
       ELSE /\ e_hit' = FALSE
            /\ UNCHANGED cache
    /\ IF e_hit'
       THEN /\ e_ret' = cache[CacheKey(sym, days)].data
            /\ e_out' = "returned"
            /\ e_pc' = "done"
       ELSE /\ e_ret' = EmptyFrame
            /\ e_out' = "none"
            /\ e_pc' = "online"
    /\ UNCHANGED <<now, limVars, thrVars, ultVars, use_cache, e_last, smtVars, auxVars>>

\* one round of _try_online_with_retry: _try_online, then return or sleep
E_TryOnline(r1, r2) ==
    /\ e_pc = "online"
    /\ LET res == TryOnline(r1, r2, e_key.days) IN
       /\ e_provider' = e_provider + res.n
       /\ IF ~IsEmpty(res.df)
          THEN /\ now' = now
               /\ StoreAndReturn(res.df)
               /\ UNCHANGED e_attempt
          ELSE /\ e_attempt' = e_attempt + 1
               /\ now' = IF e_attempt < api_max_retries - 1
                         THEN now + api_retry_delay ELSE now
               /\ e_pc' = IF e_attempt' < api_max_retries THEN "online" ELSE "ref"
               /\ UNCHANGED <<cache, e_last, e_ret, e_out>>
    /\ UNCHANGED <<limVars, thrVars, ultVars, use_cache, e_key, e_hit, e_start,
                   e_calls, smtVars, auxVars>>

\* lines 105-112: every round came back empty, _ref_data(stock_id, days)
E_Ref ==
    /\ e_pc = "ref"
    /\ now' = now
    /\ IF IsInt(e_key.sym)
       THEN StoreAndReturn(Frame(e_key.days, "reference"))
       ELSE \* np.random.seed(int(sid) + days) raises ValueError
            /\ e_out' = "raised"
            /\ e_pc' = "done"
            /\ UNCHANGED <<cache, e_last, e_ret>>
    /\ UNCHANGED <<limVars, thrVars, ultVars, use_cache, e_key, e_attempt, e_hit,
                   e_start, e_provider, e_calls, smtVars, auxVars>>

\* time passes, between calls or while a download is under way
E_Tick ==
    /\ \E d \in CacheGaps : now + d <= MaxClock /\ now' = now + d
    /\ UNCHANGED <<limVars, thrVars, ultVars, enhVars, smtVars, auxVars>>

\* ------------------------------------------------------------------------
\* The reference-data generators
\* ------------------------------------------------------------------------
\* int(sid) for a string of decimal digits
DigitValue(c) ==
    CASE c = "0" -> 0 [] c = "1" -> 1 [] c = "2" -> 2 [] c = "3" -> 3 [] c = "4" -> 4
      [] c = "5" -> 5 [] c = "6" -> 6 [] c = "7" -> 7 [] c = "8" -> 8 [] c = "9" -> 9

RECURSIVE IntOf(_)
IntOf(sym) ==
    IF sym = <<>> THEN 0
    ELSE 10 * IntOf(SubSeq(sym, 1, Len(sym) - 1)) + DigitValue(sym[Len(sym)])

\* the keys of reference_prices in _get_reference_data that are symbols here
ReferenceSymbols == {<<"2", "3", "3", "0">>}

\* what a generator gives back: nothing usable, or a frame described by its
\* number of rows, the seed its values are drawn from, and the last date of
\* its index
NoSeries(kind) == [kind |-> kind, rows |-> 0, seed |-> 0, end |-> None]
Series(n, seed, end) ==
    IF n = 0 THEN [kind |-> "frame", rows |-> 0, seed |-> 0, end |-> None]
    ELSE [kind |-> "frame", rows |-> n, seed |-> seed, end |-> end]

\* pd.date_range(end=datetime.now(), periods=days, freq='D'): the last date
DateRangeEnd(t) == t

\* hash(stock_id) % 2**32, a 64-bit hash written <<high word, low word>>
Mod32(h) == h[2]

\* EnhancedTaiwanStockDataFetcher._ref_data(sid, days) called at time t
RefData(sid, days, t) ==
    IF IsInt(sid) THEN Series(days, IntOf(sid) + days, DateRangeEnd(t))
    ELSE NoSeries("raised")

\* UltimateTaiwanStockDataFetcher._get_reference_data(stock_id, days) at time t
ReferenceData(stock_id, days, t, hash) ==
    IF stock_id \notin ReferenceSymbols THEN NoSeries("empty")
    ELSE Series(days, Mod32(hash[stock_id]), DateRangeEnd(t))

\* str hashes are salted per process: values a process may see
HashValues == {<<0, 7>>, <<1, 7>>, <<0, 11>>}

NoCall == [gen |-> "none", sym |-> <<>>, days |-> 0, out |-> NoSeries("none")]

InitGenerators ==
    /\ g_first = NoCall
    /\ g_last = NoCall

\* the observer keeps the first call and the latest one
Generated(call) ==
    /\ g_last' = call
    /\ g_first' = IF g_first = NoCall THEN call ELSE g_first

\* a call of _ref_data
G_RefData(sid, days) ==
    /\ Generated([gen |-> "_ref_data", sym |-> sid, days |-> days,
                  out |-> RefData(sid, days, now)])
    /\ UNCHANGED <<now, limVars, thrVars, ultVars, enhVars, smtVars, extVars, rtyVars, cmgVars,
                   g_hash, fetch>>

\* a call of _get_reference_data
G_ReferenceData(stock_id, days) ==
    /\ Generated([gen |-> "_get_reference_data", sym |-> stock_id, days |-> days,
                  out |-> ReferenceData(stock_id, days, now, g_hash)])
    /\ UNCHANGED <<now, limVars, thrVars, ultVars, enhVars, smtVars, extVars, rtyVars, cmgVars,
                   g_hash, fetch>>

\* ------------------------------------------------------------------------
\* TaiwanStockDataFetcher                              data_fetcher_smart.py
\* ------------------------------------------------------------------------
\* _get_price_from_yfinance: .TW, then .TWO if the first reply is empty; any
\* exception gives an empty frame
PriceFromYfinance(r1, r2, days) ==
    IF ~r1.ok THEN EmptyFrame
    ELSE IF r1.rows > 0 THEN TailOf(Frame(r1.rows, "yf.TW"), days)
    ELSE IF ~r2.ok THEN EmptyFrame
    ELSE IF r2.rows > 0 THEN TailOf(Frame(r2.rows, "yf.TWO"), days)
    ELSE EmptyFrame

\* get_stock_price of the smart fetcher
S_GetStockPrice(sym, days, r1, r2) ==
    /\ LET df == PriceFromYfinance(r1, r2, days) IN
       IF ~IsEmpty(df)
       THEN /\ use_real_data' = TRUE
            /\ last_real_data_time' = now
            /\ s_ret' = df
            /\ s_out' = "returned"
       ELSE /\ UNCHANGED <<use_real_data, last_real_data_time>>
            /\ IF IsInt(sym)
               THEN s_ret' = Frame(days, "reference") /\ s_out' = "returned"
               ELSE s_ret' = EmptyFrame /\ s_out' = "raised"
    /\ UNCHANGED <<now, limVars, thrVars, ultVars, enhVars, auxVars>>

\* ------------------------------------------------------------------------
\* One row of EnhancedTaiwanStockDataFetcher._ref_data
\* ------------------------------------------------------------------------
\* Prices are counted in thousandths.
Abs(x) == IF x >= 0 THEN x ELSE 0 - x

\* round(x, 2): to the nearest hundredth, a tie going to the even one
Round2(x) ==
    LET q == x \div 10
        r == x % 10
    IN IF r < 5 THEN 10 * q
       ELSE IF r > 5 THEN 10 * (q + 1)
       ELSE IF q % 2 = 0 THEN 10 * q ELSE 10 * (q + 1)

\* volatility = bp * 0.012
Volatility(bp) == (bp * 12) \div 1000

\* np.random.randn() * volatility, the draw z given in hundredths
Scaled(z, vol) == (z * vol) \div 100

\* np.random.randn() * volatility * 0.3
ScaledSmall(z, vol) == (z * vol * 3) \div 1000

\* '最高價': round(max(high, open_price, close), 2)
WrittenHigh(high, open_price, close) == Round2(Max(high, Max(open_price, close)))

\* the body of the loop, lines 190-203: the row written for the walk value
\* prices[i] and the four draws z
RefRow(bp, walk, z) ==
    LET price == Max(walk, (bp * 7) \div 10)
        volatility == Volatility(bp)
        high == price + Abs(Scaled(z[1], volatility))
        low == price - Abs(Scaled(z[2], volatility))
        open_price == price + ScaledSmall(z[3], volatility)
        close == price + ScaledSmall(z[4], volatility)
    IN [open |-> Round2(Max(open_price, low + 100)),
        high |-> WrittenHigh(high, open_price, close),
        low |-> Round2(Min(low, Min(open_price, close))),
        close |-> Round2(Max(close, low + 100)),
        raw |-> [high |-> high, low |-> low, open |-> open_price, close |-> close]]

\* reference_prices.get(sid, 100.0): '2885': 24.15, and the default
BasePrices == {24150, 100000}
\* prices[i] as an offset from bp, in thousandths of bp
WalkOffsets == {-400, 0, 13}
\* draws of np.random.randn(), in hundredths
Draws == {-150, 10, 150}

NoBar == [open |-> 0, high |-> 0, low |-> 0, close |-> 0,
          raw |-> [high |-> 0, low |-> 0, open |-> 0, close |-> 0]]

InitBar == bar = NoBar

\* one iteration of the loop: data.append({...})
G_Row(bp, off, z) ==
    /\ bar' = RefRow(bp, bp + (bp * off) \div 1000, z)
    /\ UNCHANGED <<now, limVars, thrVars, ultVars, enhVars, smtVars, rtyVars, cmgVars,
                   genVars, fetch, rotVars, ctrVars, dfVars, price_history>>

\* ------------------------------------------------------------------------
\* UserAgentRotator                                    rate_limiter.py:149
\* ------------------------------------------------------------------------
\* the pool, one name per entry of the list (the seven strings differ)
USER_AGENTS == <<"Chrome/120 Windows", "Chrome/119 Windows", "Firefox/121 Windows",
                 "Firefox/120 Windows", "Edg/120 Windows", "Safari/17.1 Mac",
                 "Chrome/120 Mac">>

\* self.USER_AGENTS[i], i counted from 0
AgentAt(i) == USER_AGENTS[i + 1]

\* (self.current_index + 1) % len(self.USER_AGENTS)
NextIndexMutant(i) == (i + 2) % Len(USER_AGENTS)
NextIndex(i) == (i + 1) % Len(USER_AGENTS)

MaxRotations == 9               \* get_next() calls made

InitRotator ==
    /\ current_index = 0
    /\ ua_lock = 0
    /\ ua_pc = [t \in Threads |-> "idle"]
    /\ ua_local = [t \in Threads |-> ""]
    /\ ua_log = <<>>

\* calls of get_next() made so far, returned or not
RotationsStarted == Len(ua_log) + Cardinality({t \in Threads : ua_pc[t] # "idle"})

\* a thread calls get_next() and reaches `with self.lock`
UA_Call(t) ==
    /\ ua_pc[t] = "idle"
    /\ RotationsStarted < MaxRotations
    /\ ua_pc' = [ua_pc EXCEPT ![t] = "waiting"]
    /\ UNCHANGED <<now, limVars, thrVars, ultVars, enhVars, smtVars, rtyVars, cmgVars,
                   genVars, fetch, bar, ctrVars, dfVars, price_history,
                   current_index, ua_lock, ua_local, ua_log>>

\* with self.lock: the thread obtains the lock
UA_Acquire(t) ==
    /\ ua_pc[t] = "waiting"
    /\ ua_lock = 0
    /\ ua_lock' = t
    /\ ua_pc' = [ua_pc EXCEPT ![t] = "locked"]
    /\ UNCHANGED <<now, limVars, thrVars, ultVars, enhVars, smtVars, rtyVars, cmgVars,
                   genVars, fetch, bar, ctrVars, dfVars, price_history,
                   current_index, ua_local, ua_log>>

\* ua = self.USER_AGENTS[self.current_index]
UA_Read(t) ==
    /\ ua_pc[t] = "locked"
    /\ ua_local' = [ua_local EXCEPT ![t] = AgentAt(current_index)]
    /\ ua_pc' = [ua_pc EXCEPT ![t] = "read"]
    /\ UNCHANGED <<now, limVars, thrVars, ultVars, enhVars, smtVars, rtyVars, cmgVars,
                   genVars, fetch, bar, ctrVars, dfVars, price_history,
                   current_index, ua_lock, ua_log>>

\* self.current_index = (self.current_index + 1) % len(self.USER_AGENTS)
UA_Advance(t) ==
    /\ ua_pc[t] = "read"
    /\ current_index' = NextIndex(current_index)
    /\ ua_pc' = [ua_pc EXCEPT ![t] = "advanced"]
    /\ UNCHANGED <<now, limVars, thrVars, ultVars, enhVars, smtVars, rtyVars, cmgVars,
                   genVars, fetch, bar, ctrVars, dfVars, price_history,
                   ua_lock, ua_local, ua_log>>

\* return ua: the lock is released and the caller has its value
UA_Return(t) ==
    /\ ua_pc[t] = "advanced"
    /\ ua_lock' = 0
    /\ ua_log' = Append(ua_log, ua_local[t])
    /\ ua_pc' = [ua_pc EXCEPT ![t] = "idle"]
    /\ UNCHANGED <<now, limVars, thrVars, ultVars, enhVars, smtVars, rtyVars, cmgVars,
                   genVars, fetch, bar, ctrVars, dfVars, price_history,
                   current_index, ua_local>>

\* ------------------------------------------------------------------------
\* CacheManager(): __new__ and __init__              cache_manager.py:12-33
\* ------------------------------------------------------------------------
\* a thread outside the constructor, holding no manager
NoCtor == [pc |-> "idle", ref |-> 0]

\* keys a thread stores through the manager it holds
StoredKeys == {"price_2330_30", "price_2317_30"}

InitCtor ==
    /\ cm_instance = 0
    /\ cm_made = 0
    /\ cm_initialized = "unset"
    /\ cm_store = {}
    /\ cm_lock = 0
    /\ ctor = [t \in Threads |-> NoCtor]

\* __new__, line 19: if cls._instance is None (outside the lock)
CT_New(t) ==
    /\ ctor[t].pc \in {"idle", "done"}
    /\ ctor' = [ctor EXCEPT ![t] = IF cm_instance = 0
                                   THEN [pc |-> "new_wait", ref |-> 0]
                                   ELSE [pc |-> "init", ref |-> cm_instance]]
    /\ UNCHANGED <<now, limVars, thrVars, ultVars, enhVars, smtVars, rtyVars, cmgVars,
                   genVars, fetch, bar, rotVars, dfVars, price_history,
                   cm_instance, cm_made, cm_initialized, cm_store, cm_lock>>

\* line 20: with cls._lock
CT_Lock(t) ==
    /\ ctor[t].pc = "new_wait"
    /\ cm_lock = 0
    /\ cm_lock' = t
    /\ ctor' = [ctor EXCEPT ![t].pc = "new_locked"]
    /\ UNCHANGED <<now, limVars, thrVars, ultVars, enhVars, smtVars, rtyVars, cmgVars,
                   genVars, fetch, bar, rotVars, dfVars, price_history,
                   cm_instance, cm_made, cm_initialized, cm_store>>

\* lines 21-22: if cls._instance is None: cls._instance = super().__new__(cls)
CT_Create(t) ==
    /\ ctor[t].pc = "new_locked"
    /\ IF cm_instance = 0
       THEN /\ cm_made' = cm_made + 1
            /\ cm_instance' = cm_made'
            /\ ctor' = [ctor EXCEPT ![t].pc = "new_made"]
       ELSE /\ ctor' = [ctor EXCEPT ![t].pc = "new_exit"]
            /\ UNCHANGED <<cm_made, cm_instance>>
    /\ UNCHANGED <<now, limVars, thrVars, ultVars, enhVars, smtVars, rtyVars, cmgVars,
                   genVars, fetch, bar, rotVars, dfVars, price_history,
                   cm_initialized, cm_store, cm_lock>>

\* line 23: cls._instance._initialized = False
CT_Unmark(t) ==
    /\ ctor[t].pc = "new_made"
    /\ cm_initialized' = "False"
    /\ ctor' = [ctor EXCEPT ![t].pc = "new_exit"]
    /\ UNCHANGED <<now, limVars, thrVars, ultVars, enhVars, smtVars, rtyVars, cmgVars,
                   genVars, fetch, bar, rotVars, dfVars, price_history,
                   cm_instance, cm_made, cm_store, cm_lock>>

\* the with block ends; line 24: return cls._instance
CT_Unlock(t) ==
    /\ ctor[t].pc = "new_exit"
    /\ cm_lock' = 0
    /\ ctor' = [ctor EXCEPT ![t] = [pc |-> "init", ref |-> cm_instance]]
    /\ UNCHANGED <<now, limVars, thrVars, ultVars, enhVars, smtVars, rtyVars, cmgVars,
                   genVars, fetch, bar, rotVars, dfVars, price_history,
                   cm_instance, cm_made, cm_initialized, cm_store>>

\* __init__, line 27: if self._initialized: return; the attribute does not
\* exist before line 23 has run, and reading it raises AttributeError
CT_InitCheck(t) ==
    /\ ctor[t].pc = "init"
    /\ ctor' = [ctor EXCEPT ![t].pc = IF cm_initialized = "unset" THEN "raised"
                                       ELSE IF cm_initialized = "True" THEN "done"
                                       ELSE "init_cache"]
    /\ UNCHANGED <<now, limVars, thrVars, ultVars, enhVars, smtVars, rtyVars, cmgVars,
                   genVars, fetch, bar, rotVars, dfVars, price_history,
                   cm_instance, cm_made, cm_initialized, cm_store, cm_lock>>

\* lines 30-32: self._cache = {}; self._lock = ...; self._default_ttl = 300
CT_InitCache(t) ==
    /\ ctor[t].pc = "init_cache"
    /\ cm_store' = {}
    /\ ctor' = [ctor EXCEPT ![t].pc = "init_flag"]
    /\ UNCHANGED <<now, limVars, thrVars, ultVars, enhVars, smtVars, rtyVars, cmgVars,
                   genVars, fetch, bar, rotVars, dfVars, price_history,
                   cm_instance, cm_made, cm_initialized, cm_lock>>

\* line 33: self._initialized = True
CT_InitDone(t) ==
    /\ ctor[t].pc = "init_flag"
    /\ cm_initialized' = "True"
    /\ ctor' = [ctor EXCEPT ![t].pc = "done"]
    /\ UNCHANGED <<now, limVars, thrVars, ultVars, enhVars, smtVars, rtyVars, cmgVars,
                   genVars, fetch, bar, rotVars, dfVars, price_history,
                   cm_instance, cm_made, cm_store, cm_lock>>

\* a thread that holds the manager stores an entry: set(key, data)
CT_Set(t, k) ==
    /\ ctor[t].pc = "done"
    /\ cm_store' = cm_store \cup {k}
    /\ UNCHANGED <<now, limVars, thrVars, ultVars, enhVars, smtVars, rtyVars, cmgVars,
                   genVars, fetch, bar, rotVars, dfVars, price_history,
                   cm_instance, cm_made, cm_initialized, cm_lock, ctor>>

\* ------------------------------------------------------------------------
\* TaiwanStockDataFetcher                                    data_fetcher.py
\* ------------------------------------------------------------------------
cache_seconds == 300                                   \* data_fetcher.py:118
accept_rows == 3                                       \* data_fetcher.py:139
DaySeconds == 86400             \* seconds of one day

\* (datetime.now() - cached_time).seconds: timedelta keeps days apart, and
\* .seconds is the part below one day
TimedeltaSeconds(d) == d % DaySeconds

\* cache_key = f"price_{stock_id}_{days}"
PriceKey(sym, days) == <<"price", sym, days>>

\* if cache_key in self._cache and (now - cached_time).seconds < 300
PriceCached(c, k, t) == k \in DOMAIN c /\ TimedeltaSeconds(t - c[k].at) < cache_seconds

\* one yf.download() call: it raises, or returns a frame of `rows` rows
PriceReplies == {[ok |-> FALSE, rows |-> 0], [ok |-> TRUE, rows |-> 2],
                 [ok |-> TRUE, rows |-> 40]}

\* lines 125-151: the suffixes in order; a reply of more than 3 rows is
\* cut to tail(days), stored and returned
PriceDownload(r1, r2, days) ==
    IF r1.ok /\ r1.rows > accept_rows
    THEN [found |-> TRUE, df |-> TailOf(Frame(r1.rows, "yf.TW"), days), n |-> 1]
    ELSE IF r2.ok /\ r2.rows > accept_rows
         THEN [found |-> TRUE, df |-> TailOf(Frame(r2.rows, "yf.TWO"), days), n |-> 2]
         ELSE [found |-> FALSE, df |-> EmptyFrame, n |-> 2]

NoPriceCall == [key |-> <<>>, hit |-> FALSE, age |-> None, n |-> 0, ret |-> EmptyFrame]

InitPrices ==
    /\ d_cache = <<>>
    /\ d_op = NoPriceCall

\* get_stock_price(stock_id, days) of data_fetcher.py, for one caller
D_GetStockPrice(sym, days, r1, r2) ==
    /\ LET k == PriceKey(sym, days) IN
       IF ~yf_available
       THEN /\ d_op' = [NoPriceCall EXCEPT !.key = k]
            /\ UNCHANGED d_cache
       ELSE IF PriceCached(d_cache, k, now)
       THEN /\ d_op' = [key |-> k, hit |-> TRUE, age |-> now - d_cache[k].at, n |-> 0,
                        ret |-> d_cache[k].data]
            /\ UNCHANGED d_cache
       ELSE LET res == PriceDownload(r1, r2, days) IN
            /\ d_op' = [key |-> k, hit |-> FALSE, age |-> None, n |-> res.n,
                        ret |-> res.df]
            /\ d_cache' = IF res.found
                          THEN [x \in DOMAIN d_cache \cup {k} |->
                                   IF x = k THEN [at |-> now, data |-> res.df]
                                   ELSE d_cache[x]]
                          ELSE d_cache
    /\ UNCHANGED <<now, limVars, thrVars, ultVars, enhVars, smtVars, rtyVars, cmgVars,
                   genVars, fetch, bar, rotVars, ctrVars, price_history>>

MaxIdle == 400                  \* idle gaps fill at most this much of a day
MaxDays == 1                    \* whole days that pass
ShortGaps == {100, cache_seconds}

\* minutes pass between two calls
D_Tick ==
    /\ \E d \in ShortGaps : (now % DaySeconds) + d <= MaxIdle /\ now' = now + d
    /\ UNCHANGED <<limVars, thrVars, ultVars, enhVars, smtVars, auxVars>>

\* a whole day passes between two calls
D_NextDay ==
    /\ now \div DaySeconds < MaxDays
    /\ now' = now + DaySeconds
    /\ UNCHANGED <<limVars, thrVars, ultVars, enhVars, smtVars, auxVars>>

\* ------------------------------------------------------------------------
\* Stock.price_history                          domain/entities/stock.py
\* ------------------------------------------------------------------------
\* StockPrice.date is a datetime: a day and an hour of that day
Stamps == [day : 1..3, hour : {9, 13}]
Closes == {10, 11}
StockPrices == [date : Stamps, close : Closes]

\* the order of datetime values
Before(a, b) == a.day < b.day \/ (a.day = b.day /\ a.hour < b.hour)

\* datetime.date()
DateOf(d) == d.day

\* any(p.date == price.date for p in self.price_history)
HasDate(h, price) == \E i \in DOMAIN h : h[i].date = price.date

\* list.sort(key=lambda p: p.date), a stable sort, as insertions into the
\* sorted front part
InsertByDate(sorted, p) ==
    LET n == Cardinality({i \in DOMAIN sorted : ~Before(p.date, sorted[i].date)})
    IN SubSeq(sorted, 1, n) \o <<p>> \o SubSeq(sorted, n + 1, Len(sorted))

RECURSIVE SortByDate(_)
SortByDate(h) ==
    IF h = <<>> THEN <<>>
    ELSE InsertByDate(SortByDate(SubSeq(h, 1, Len(h) - 1)), h[Len(h)])

\* Stock.add_price(price): the history afterwards
AddPrice(h, price) ==
    IF ~HasDate(h, price) THEN SortByDate(Append(h, price)) ELSE h

\* Stock.get_price_on_date(date): the entries it can match
OnDate(h, d) == {i \in DOMAIN h : DateOf(h[i].date) = DateOf(d)}

InitStock == price_history = <<>>

\* stock.add_price(price)
P_AddPrice(price) ==
    /\ price_history' = AddPrice(price_history, price)
    /\ UNCHANGED <<now, limVars, thrVars, ultVars, enhVars, smtVars, rtyVars, cmgVars,
                   genVars, fetch, bar, rotVars, ctrVars, dfVars>>

InitExt ==
    /\ InitBar
    /\ InitRotator
    /\ InitCtor
    /\ InitPrices
    /\ InitStock

InitE ==
    /\ now = 0
    /\ InitLimiter
    /\ InitThreads
    /\ InitUltimate
    /\ yf_available = TRUE
    /\ finmind_on = TRUE
    /\ InitEnhanced
    /\ use_cache \in BOOLEAN
    /\ InitSmart
    /\ InitRetry
    /\ InitCacheCallers
    /\ InitGenerators
    /\ g_hash = [sym \in Symbols |-> <<0, 7>>]
    /\ InitFetch
    /\ InitExt

NextE ==
    \/ \E sym \in Symbols, days \in Days : E_Call(sym, days)
    \/ \E r1, r2 \in OnlineReplies : E_TryOnline(r1, r2)
    \/ E_Ref
    \/ E_Tick

SpecEnhanced == InitE /\ [][NextE]_vars

NextS ==
    \/ \E sym \in Symbols, days \in Days : \E r1, r2 \in OnlineReplies :
           S_GetStockPrice(sym, days, r1, r2)
    \/ E_Tick

SpecSmart == InitE /\ [][NextS]_vars

InitU ==
    /\ now = 0
    /\ InitLimiter
    /\ InitThreads
    /\ InitUltimate
    /\ yf_available \in BOOLEAN
    /\ finmind_on \in BOOLEAN
    /\ InitEnhanced
    /\ use_cache = TRUE
    /\ InitSmart
    /\ InitRetry
    /\ InitCacheCallers
    /\ InitGenerators
    /\ g_hash = [sym \in Symbols |-> <<0, 7>>]
    /\ InitFetch
    /\ InitExt

NextU ==
    \/ \E sym \in Symbols, days \in Days : U_Call(sym, days)
    \/ U_YfUnavailable
    \/ U_Wait
    \/ \E err \in YfErrors : U_DownloadFails(err)
    \/ \E n \in YfRows : U_DownloadReturns(n)
    \/ U_AfterTier1
    \/ \E n \in FinMindRows : U_FinMind(n)

SpecUltimate == InitU /\ [][NextU]_vars

InitL ==
    /\ now = 0
    /\ InitLimiter
    /\ InitThreads
    /\ InitUltimate
    /\ yf_available = TRUE
    /\ finmind_on = TRUE
    /\ InitEnhanced
    /\ use_cache = TRUE
    /\ InitSmart
    /\ InitRetry
    /\ InitCacheCallers
    /\ InitGenerators
    /\ g_hash = [sym \in Symbols |-> <<0, 7>>]
    /\ InitFetch
    /\ InitExt

NextL ==
    \/ \E t \in Threads : L_Call(t)
    \/ \E t \in Threads : L_Queue(t)
    \/ \E t \in Threads : L_Acquire(t)
    \/ \E t \in Threads : L_BackoffWake(t)
    \/ \E t \in Threads : L_WindowWake(t)
    \/ \E t \in Threads : L_JitterWake(t)
    \/ \E t \in Threads : L_Record429(t)
    \/ \E t \in Threads : L_Reset(t)
    \/ Tick

SpecLimiter == InitL /\ [][NextL]_vars

\* ------------------------------------------------------------------------
\* Threads calling UltimateTaiwanStockDataFetcher.get_stock_price, all
\* sharing the global RateLimiter; each thread makes one call
\* ------------------------------------------------------------------------
\* where get_stock_price goes when the first tier gave nothing
AfterTier1 == IF finmind_on THEN "finmind" ELSE "done"

\* for suffix in ['.TW', '.TWO']: the suffix after the i-th, 0 when the loop
\* is over
FollowingSuffixMutant(i) == IF i < Len(Suffixes) THEN i + 1 ELSE 1
FollowingSuffix(i) == IF i < Len(Suffixes) THEN i + 1 ELSE 0

\* except Exception: continue / the loop ends: return pd.DataFrame()
SuffixDone(f) ==
    IF FollowingSuffix(f.sfx) # 0
    THEN [f EXCEPT !.pc = "download", !.sfx = FollowingSuffix(f.sfx), !.attempt = 0]
    ELSE [f EXCEPT !.pc = AfterTier1, !.attempt = 0]

\* the downloads of one call that raise: never more than the call makes
MaxFails == 8

\* one download: it raises, returns too few rows, or returns a usable frame
DownloadReplies == {"raises", "few", "rows"}

MaxFetchTime == 3               \* no get_stock_price call starts at this time or later

\* get_stock_price(stock_id, days) is called by thread t
F_Call(t) ==
    /\ fetch[t].pc \in {"none", "done"}
    /\ tpc[t] = "idle"
    /\ now < MaxFetchTime
    /\ fetch' = [fetch EXCEPT ![t] =
                    [pc |-> IF yf_available THEN "tier1" ELSE AfterTier1,
                     sfx |-> 1, attempt |-> 0, fails |-> 0]]
    /\ UNCHANGED <<now, limVars, thrVars, ultVars, enhVars, smtVars, extVars, rtyVars, cmgVars,
                   genVars>>

\* _try_yfinance_with_protection: self.rate_limiter.wait_if_needed(), entered
\* at once
F_Wait(t) ==
    /\ fetch[t].pc = "tier1"
    /\ L_Call(t)

\* the same call, finding the limiter's lock held
F_WaitQueued(t) ==
    /\ fetch[t].pc = "tier1"
    /\ L_Queue(t)

\* another user of the limiter records a 429 signal while a caller is about
\* to enter wait_if_needed()
F_Signal(t) ==
    /\ \E u \in Threads : fetch[u].pc = "tier1" /\ tpc[u] \in {"idle", "w_lock"}
    /\ L_Record429(t)

\* one download_func() call inside execute_with_retry, and what follows it
F_Download(t, reply) ==
    /\ fetch[t].pc = "download"
    /\ reply = "raises" => fetch[t].fails < MaxFails
    /\ IF reply = "rows"
       THEN /\ fetch' = [fetch EXCEPT ![t].pc = "done"]
            /\ UNCHANGED tWake
       ELSE IF reply = "few"
            THEN /\ fetch' = [fetch EXCEPT ![t] = SuffixDone(@)]
                 /\ UNCHANGED tWake
       ELSE IF RetriesExhausted(fetch[t].attempt)
            THEN /\ fetch' = [fetch EXCEPT ![t] = SuffixDone([@ EXCEPT !.fails = @ + 1])]
                 /\ UNCHANGED tWake
            ELSE /\ fetch' = [fetch EXCEPT ![t].pc = "retry_sleep", ![t].fails = @ + 1]
                 /\ tWake' = [tWake EXCEPT ![t] = now + RetryDelay(fetch[t].attempt)]
    /\ UNCHANGED <<now, limVars, tpc, tobs, admitted, first429, ultVars, enhVars, smtVars, extVars,
                   rtyVars, cmgVars, genVars>>

\* time.sleep(total_delay) of execute_with_retry ends: the next attempt
F_RetryWake(t) ==
    /\ fetch[t].pc = "retry_sleep"
    /\ now' = Max(now, tWake[t])
    /\ tWake' = [tWake EXCEPT ![t] = None]
    /\ fetch' = [fetch EXCEPT ![t].pc = "download", ![t].attempt = @ + 1]
    /\ UNCHANGED <<limVars, tpc, tobs, admitted, first429, ultVars, enhVars, smtVars, extVars,
                   rtyVars, cmgVars, genVars>>

\* _try_finmind completes (its fetcher catches every error); get_stock_price returns
F_FinMind(t) ==
    /\ fetch[t].pc = "finmind"
    /\ fetch' = [fetch EXCEPT ![t].pc = "done"]
    /\ UNCHANGED <<now, limVars, thrVars, ultVars, enhVars, smtVars, extVars, rtyVars, cmgVars,
                   genVars>>

\* the callers whose symbol the upstream fails for; the others' downloads
\* return a usable frame at once
FailingCallers == {1}
RepliesTo(t) == IF t \in FailingCallers THEN DownloadReplies ELSE {"rows"}

NextF ==
    \/ \E t \in Threads : F_Call(t)
    \/ \E t \in Threads : F_Wait(t)
    \/ \E t \in Threads : F_WaitQueued(t)
    \/ \E t \in Threads : L_Acquire(t)
    \/ \E t \in Threads : L_BackoffWake(t)
    \/ \E t \in Threads : L_WindowWake(t)
    \/ \E t \in Threads : L_JitterWake(t)
    \/ \E t \in Threads : F_Signal(t)
    \/ \E t \in Threads : \E reply \in RepliesTo(t) : F_Download(t, reply)
    \/ \E t \in Threads : F_RetryWake(t)
    \/ \E t \in Threads : F_FinMind(t)

\* every sleep ends
Wakes(t) == L_BackoffWake(t) \/ L_WindowWake(t) \/ L_JitterWake(t) \/ F_RetryWake(t)

\* a thread inside get_stock_price takes its next step; every upstream request
\* completes or fails
Proceeds(t) ==
    \/ F_Wait(t)
    \/ F_WaitQueued(t)
    \/ \E reply \in RepliesTo(t) : F_Download(t, reply)
    \/ F_FinMind(t)

\* the safety part, fair sleeps and steps, and a fair lock
SpecFetchers ==
    /\ InitL
    /\ [][NextF]_vars
    /\ \A t \in Threads : WF_vars(Wakes(t))
    /\ \A t \in Threads : WF_vars(Proceeds(t))
    /\ \A t \in Threads : SF_vars(L_Acquire(t))

\* ------------------------------------------------------------------------
\* Rate-limit signals over hours: record_429_error() and reset() calls with
\* short and long signal-free gaps between them
\* ------------------------------------------------------------------------
MaxBackoffClock == 3800         \* no idle gap ends after this time
BackoffGaps == {50, reset_window + 1}

B_Tick ==
    /\ \E d \in BackoffGaps : now + d <= MaxBackoffClock /\ now' = now + d
    /\ UNCHANGED <<limVars, thrVars, ultVars, enhVars, smtVars, auxVars>>

NextB ==
    \/ \E t \in Threads : L_Record429(t)
    \/ \E t \in Threads : L_Reset(t)
    \/ B_Tick

SpecBackoff == InitL /\ [][NextB]_vars

\* ------------------------------------------------------------------------
\* The Ultimate fetcher against a first tier that answers every download
\* either with a 429 or with a full reply
\* ------------------------------------------------------------------------
NextU429 ==
    \/ \E sym \in Symbols, days \in Days \ {0} : U_Call(sym, days)
    \/ U_YfUnavailable
    \/ U_Wait
    \/ U_DownloadFails("429 Too Many Requests")
    \/ \E n \in {m \in YfRows : m > min_rows} : U_DownloadReturns(n)
    \/ U_AfterTier1
    \/ \E n \in FinMindRows : U_FinMind(n)

SpecUltimate429 == InitU /\ [][NextU429]_vars

\* ------------------------------------------------------------------------
\* The Ultimate fetcher against an upstream that answers every download with
\* a series of one row or more
\* ------------------------------------------------------------------------
NextUA ==
    \/ \E sym \in Symbols, days \in Days \ {0} : U_Call(sym, days)
    \/ U_YfUnavailable
    \/ U_Wait
    \/ \E n \in {m \in YfRows : m > 0} : U_DownloadReturns(n)
    \/ U_AfterTier1
    \/ \E n \in FinMindRows : U_FinMind(n)

SpecUltimateAnswering == InitU /\ [][NextUA]_vars

\* ------------------------------------------------------------------------
\* The Enhanced fetcher against an upstream that is always reachable: every
\* download returns, with or without rows
\* ------------------------------------------------------------------------
NextER ==
    \/ \E sym \in Symbols, days \in Days : E_Call(sym, days)
    \/ \E r1, r2 \in {r \in OnlineReplies : r.ok} : E_TryOnline(r1, r2)
    \/ E_Ref
    \/ E_Tick

SpecEnhancedReachable == InitE /\ [][NextER]_vars

\* ------------------------------------------------------------------------
\* One caller of RetryHandler.execute_with_retry
\* ------------------------------------------------------------------------
NextR ==
    \/ \E mr \in 0..MaxRetriesTried : R_Execute(mr)
    \/ \E v \in RetryValues : R_FuncReturns(v)
    \/ \E e \in RetryErrors : R_FuncRaises(e)

SpecRetry == InitL /\ [][NextR]_vars

\* ------------------------------------------------------------------------
\* Callers of the CacheManager singleton; a cleanup_expired() may be
\* overtaken by get and set between reading the clock and taking the lock
\* ------------------------------------------------------------------------
CacheKeys == {CacheKey(sym, 30) : sym \in Symbols}
CacheValues == {Frame(30, "yf.TW"), Frame(30, "finmind")}

\* time passes between the calls
CM_Tick ==
    /\ now + stock_price_ttl <= MaxClock
    /\ now' = now + stock_price_ttl
    /\ UNCHANGED <<limVars, thrVars, ultVars, enhVars, smtVars, auxVars>>

NextC ==
    \/ \E k \in CacheKeys : CM_Get(k)
    \/ \E k \in CacheKeys, v \in CacheValues, ttl \in CacheTtls : CM_Set(k, v, ttl)
    \/ CM_CleanupRead
    \/ CM_CleanupSweep
    \/ CM_Tick

SpecCache == InitL /\ [][NextC]_vars

\* ------------------------------------------------------------------------
\* Callers of the two reference-data generators, at any times
\* ------------------------------------------------------------------------
InitG ==
    /\ now = 0
    /\ InitLimiter
    /\ InitThreads
    /\ InitUltimate
    /\ yf_available = TRUE
    /\ finmind_on = TRUE
    /\ InitEnhanced
    /\ use_cache = TRUE
    /\ InitSmart
    /\ InitRetry
    /\ InitCacheCallers
    /\ InitGenerators
    /\ g_hash \in [Symbols -> HashValues]
    /\ InitFetch
    /\ InitExt

NextG ==
    \/ \E sid \in Symbols, days \in Days : G_RefData(sid, days)
    \/ \E stock_id \in Symbols, days \in Days : G_ReferenceData(stock_id, days)
    \/ E_Tick

SpecGenerators == InitG /\ [][NextG]_vars

\* ------------------------------------------------------------------------
\* C1: get_stock_price of the orchestrating fetchers returns a series or an
\* empty result and never raises to its caller, whatever the symbol and the
\* upstream outcomes, also when the reference generator is used.
\* ------------------------------------------------------------------------
C1_NeverRaises == u_out # "raised" /\ e_out # "raised"

\* ------------------------------------------------------------------------
\* C2: in the Ultimate fetcher, when the first tier returns a non-empty
\* series the call returns exactly that series and no later tier (FinMind,
\* reference data) is invoked.
\* ------------------------------------------------------------------------
C2_FirstTierWins ==
    (u_pc = "done" /\ ~IsEmpty(u_tier1)) =>
        /\ u_ret = u_tier1
        /\ \A i \in DOMAIN trace : trace[i] # "finmind"
        /\ IsEmpty(u_tier2)
        /\ stats.reference_used = 0

\* the second suffix answered, FinMind was configured and was not asked
C2_Witness ==
    /\ u_pc = "done"
    /\ finmind_on
    /\ u_ret = Frame(30, "yf.TWO")
    /\ u_tier1 = u_ret

\* ------------------------------------------------------------------------
\* C3: in the Ultimate fetcher, when every real-data tier returns EMPTY the
\* call returns a reference series of exactly `days` rows carrying the
\* degraded flag, and reference_used is incremented.
\* ------------------------------------------------------------------------
C3_FallsThrough ==
    (u_pc = "done" /\ IsEmpty(u_tier1) /\ IsEmpty(u_tier2)) =>
        /\ u_ret.rows = u_key.days
        /\ u_ret.src = "reference"
        /\ "reference" \in u_ret.attrs
        /\ stats.reference_used >= 1

\* ------------------------------------------------------------------------
\* C4: a reference series returned by get_stock_price carries a
\* degraded/reference marker the caller can read, also when it is served
\* from the cache.
\* ------------------------------------------------------------------------
C4_ReferenceMarked ==
    /\ (e_out = "returned" /\ e_ret.src = "reference") => "reference" \in e_ret.attrs
    /\ (s_out = "returned" /\ s_ret.src = "reference") =>
           ("reference" \in s_ret.attrs \/ ~use_real_data)

\* ------------------------------------------------------------------------
\* C5: after an Ultimate get_stock_price call returned real data, a second
\* call for the same (symbol, days) within the TTL invokes no provider: no
\* wait_if_needed, no yfinance download, no FinMind request.
\* ------------------------------------------------------------------------
C5_CacheFirst == u_warm => trace = <<>>

\* ------------------------------------------------------------------------
\* C6 (as stated): a call at t0 stored the series; a call at t0 < t < t0+300
\* is served from the cache with zero provider invocations, and a call at
\* t > t0+300 is a miss.
\* ------------------------------------------------------------------------
\* the call in progress follows the call that last stored a series for its key
Tracked ==
    /\ e_pc # "idle"
    /\ e_last.key = CacheKey(e_key.sym, e_key.days)
    /\ e_last.call < e_calls

ServedFromCache == e_hit /\ e_provider = 0 /\ e_ret = e_last.data /\ e_out = "returned"

C7_EveryCallGated ==
    \A i \in DOMAIN trace :
        trace[i] # "wait" => (i > 1 /\ trace[i - 1] = "wait")

\* a step in which thread t's wait_if_needed() returns to its caller
Returns(t) == tpc[t] \in {"w_backoff", "w_jitter"} /\ tpc'[t] = "idle"

\* ------------------------------------------------------------------------
\* C8: with max_requests admissions recorded within the trailing time_window
\* and no active backoff, wait_if_needed() does not return before the oldest
\* of them is more than time_window seconds old.
\* ------------------------------------------------------------------------
C8_WindowBlocks ==
    [][\A t \in Threads :
          (Returns(t) /\ tobs[t].fullOldest # None)
              => now' > tobs[t].fullOldest + time_window]_vars

\* a call that found the window full has slept the window wait and is in its jitter
C8_Witness ==
    \E t \in Threads :
        /\ tpc[t] = "w_jitter"
        /\ tobs[t].fullOldest # None
        /\ Len(request_times) = max_requests - 1

\* ------------------------------------------------------------------------
\* C9: the admission budget is global: at most max_requests wait_if_needed()
\* calls return within any interval of length time_window, whatever the
\* interleaving of wait_if_needed() and record_429_error() calls.
\* ------------------------------------------------------------------------
C9_GlobalBudget == Len(admitted) <= max_requests

\* ------------------------------------------------------------------------
\* C10: a wait_if_needed() that starts before backoff_until does not return
\* before backoff_until (absent a reset()), and one issued right after the
\* first record_429_error() blocks for at least base_backoff seconds.
\* ------------------------------------------------------------------------
C10_BackoffBlocks ==
    [][\A t \in Threads :
          Returns(t) =>
              /\ tobs[t].seenBackoff # None => now' >= tobs[t].seenBackoff
              /\ tobs[t].dueFirst # None => now' >= tobs[t].dueFirst]_vars

\* a call issued right after the first 429 is sleeping out the backoff
C10_Witness ==
    \E t \in Threads :
        /\ tpc[t] = "w_backoff"
        /\ tobs[t].dueFirst # None
        /\ tobs[t].seenBackoff = backoff_until

\* a step in which record_429_error() sets a new backoff
Records429 == backoff_until' # backoff_until /\ backoff_until' # None

\* ------------------------------------------------------------------------
\* C11: the backoff grows exponentially with consecutive signals: a
\* record_429_error() that arrives while the previous backoff is still
\* running sets a backoff twice as long as the previous one, capped at
\* max_backoff (60, 120, 240, 480, 600 for the 1st, 2nd, ... signal), so
\* each is strictly longer than the one before until the cap is reached.
\* ------------------------------------------------------------------------
C11_BackoffDoubles ==
    [][(Records429 /\ BackoffActive(backoff_until, now)) =>
          LET prev == backoff_until - last_429_time
              next == backoff_until' - now
          IN /\ next = Min(max_backoff, 2 * prev)
             /\ (prev < max_backoff => next > prev)]_vars

\* ------------------------------------------------------------------------
\* C12: a record_429_error() arriving more than reset_window after the
\* previous rate-limit signal starts again at base_backoff, as the first
\* signal ever recorded does.
\* ------------------------------------------------------------------------
C12_ResetsAfterWindow ==
    [][(Records429 /\ last_429_time # None /\ now - last_429_time > reset_window)
          => backoff_until' = now + base_backoff]_vars

\* the yfinance downloads made by the call in progress
Downloads == Cardinality({i \in DOMAIN trace : trace[i] \in {"yf.TW", "yf.TWO"}})

\* the 429 signals of the call when every download is a 429 or a full reply
Signals429 == Downloads - (IF IsEmpty(u_tier1) THEN 0 ELSE 1)

\* ------------------------------------------------------------------------
\* C13: each 429 answered by the first tier is recorded: after the first
\* get_stock_price call stats['yfinance_429'] equals the number of 429
\* signals, record_429_error() has been called if there was one, and a call
\* whose later retry succeeded returns the real data with
\* yfinance_success = 1 (two 429s then a success: yfinance_429 = 2).
\* ------------------------------------------------------------------------
C13_429Counted ==
    (u_pc = "done" /\ u_calls = 1) =>
        /\ stats.yfinance_429 = Signals429
        /\ Signals429 > 0 => (last_429_time # None /\ backoff_until # None)
        /\ ~IsEmpty(u_tier1) => (u_ret = u_tier1 /\ stats.yfinance_success = 1)

\* ------------------------------------------------------------------------
\* C14: for any max_retries >= 0, if func fails k <= max_retries times and
\* then succeeds, execute_with_retry returns func's value and func has been
\* invoked exactly k+1 times; the handler does not give up before func has
\* failed more than max_retries times, and makes no call after the success.
\* ------------------------------------------------------------------------
C14_RetryThenSucceed ==
    /\ r_out = "returned" =>
           /\ r_val \in RetryValues
           /\ r_calls = Len(r_errs) + 1
           /\ Len(r_errs) <= r_max
    /\ r_out = "raised" => Len(r_errs) > r_max
    /\ r_pc = "running" => (r_out = "none" /\ r_calls = Len(r_errs))

\* func failed max_retries = 3 times and succeeded at the last attempt
C14_Witness ==
    /\ r_out = "returned"
    /\ r_max = MaxRetriesTried
    /\ Len(r_errs) = r_max
    /\ r_calls = r_max + 1

\* ------------------------------------------------------------------------
\* C15: if func fails at every attempt, execute_with_retry invokes it
\* exactly max_retries + 1 times, sleeps once after each attempt but the
\* last, and raises the exception of the last attempt.
\* ------------------------------------------------------------------------
C15_RaisesLast ==
    r_out = "raised" =>
        /\ r_calls = r_max + 1
        /\ Len(r_errs) = r_calls
        /\ r_sleeps = r_max
        /\ r_val = r_errs[r_calls]

\* four failures, the last one of another kind than the first
C15_Witness ==
    /\ r_out = "raised"
    /\ r_max = MaxRetriesTried
    /\ r_calls = r_max + 1
    /\ r_errs[r_calls] # r_errs[1]
    /\ r_sleeps = r_max

\* ------------------------------------------------------------------------
\* C16: CacheManager.get(key) returns the stored value if and only if the
\* key was set and now < expires_at; in every other case, now = expires_at
\* and ttl = 0 included, it returns None and the entry is gone afterwards.
\* ------------------------------------------------------------------------
C16_GetIffFresh ==
    c_op.op = "get" =>
        /\ c_op.ret # NoValue <=> (c_op.exp # None /\ c_op.at < c_op.exp)
        /\ c_op.ret # NoValue =>
               (c_op.key \in DOMAIN cache /\ cache[c_op.key].data = c_op.ret)
        /\ c_op.ret = NoValue => c_op.key \notin DOMAIN cache

\* the step in which a cleanup_expired() sweeps and returns
Sweeps == c_time # None /\ c_time' = None

C19_EmptyNotRetried == e_provider <= Len(Suffixes)

\* ------------------------------------------------------------------------
\* C20: the reference generators are deterministic: two calls of the same
\* generator with the same (symbol, days), at any two times and whatever was
\* called in between, give identical output (rows, dates and values).
\* ------------------------------------------------------------------------
C20_Reproducible ==
    (g_last.gen = g_first.gen /\ g_last.sym = g_first.sym /\ g_last.days = g_first.days)
        => g_last.out = g_first.out

\* ------------------------------------------------------------------------
\* Rows of the reference tier, for every base price, walk value and draw
\* ------------------------------------------------------------------------
NextRows ==
    \E bp \in BasePrices, off \in WalkOffsets, z \in [1..4 -> Draws] : G_Row(bp, off, z)

SpecRows == InitL /\ [][NextRows]_vars

\* ------------------------------------------------------------------------
\* Threads calling UserAgentRotator.get_next()
\* ------------------------------------------------------------------------
NextRot ==
    \/ \E t \in Threads : UA_Call(t)
    \/ \E t \in Threads : UA_Acquire(t)
    \/ \E t \in Threads : UA_Read(t)
    \/ \E t \in Threads : UA_Advance(t)
    \/ \E t \in Threads : UA_Return(t)

SpecRotator == InitL /\ [][NextRot]_vars

\* ------------------------------------------------------------------------
\* Threads constructing CacheManager() and storing through it
\* ------------------------------------------------------------------------
NextCtor ==
    \/ \E t \in Threads : CT_New(t)
    \/ \E t \in Threads : CT_Lock(t)
    \/ \E t \in Threads : CT_Create(t)
    \/ \E t \in Threads : CT_Unmark(t)
    \/ \E t \in Threads : CT_Unlock(t)
    \/ \E t \in Threads : CT_InitCheck(t)
    \/ \E t \in Threads : CT_InitCache(t)
    \/ \E t \in Threads : CT_InitDone(t)
    \/ \E t \in Threads, k \in StoredKeys : CT_Set(t, k)

SpecSingleton == InitL /\ [][NextCtor]_vars

\* ------------------------------------------------------------------------
\* One caller of TaiwanStockDataFetcher.get_stock_price (data_fetcher.py),
\* over minutes and days
\* ------------------------------------------------------------------------
PriceSymbols == {<<"2", "3", "3", "0">>}

NextD ==
    \/ \E sym \in PriceSymbols, days \in Days : \E r1, r2 \in PriceReplies :
           D_GetStockPrice(sym, days, r1, r2)
    \/ D_Tick
    \/ D_NextDay

SpecPrices == InitL /\ [][NextD]_vars

\* ------------------------------------------------------------------------
\* A Stock created with an empty history, and its add_price calls
\* ------------------------------------------------------------------------
NextStock == \E price \in StockPrices : P_AddPrice(price)

SpecStock == InitL /\ [][NextStock]_vars

\* ------------------------------------------------------------------------
\* C18: every get_stock_price call of the Ultimate fetcher eventually
\* returns, for concurrent callers sharing the global RateLimiter and any
\* upstream failures and 429 signals, given that every upstream request
\* completes or fails, every sleep ends and the lock is fair.
\* ------------------------------------------------------------------------
C18_EveryCallReturns ==
    \A t \in Threads : (fetch[t].pc \notin {"none", "done"}) ~> (fetch[t].pc = "done")

\* a caller queues for the limiter's lock while another one sleeps out a
\* backoff inside wait_if_needed
C18_Witness ==
    \E t, u \in Threads :
        /\ fetch[t].pc = "tier1" /\ tpc[t] = "w_lock"
        /\ fetch[u].pc = "tier1" /\ tpc[u] = "w_backoff"

\* ------------------------------------------------------------------------
\* C21: every row written by _ref_data has high >= open, high >= close,
\* high >= low, low <= open and low <= close, for every base price and every
\* random draw.
\* ------------------------------------------------------------------------
C21_BarOrdered ==
    /\ bar.high >= bar.open
    /\ bar.high >= bar.close
    /\ bar.high >= bar.low
    /\ bar.low <= bar.open
    /\ bar.low <= bar.close

\* ------------------------------------------------------------------------
\* C22: get_next() cycles round-robin over the pool: the k-th call served
\* returns USER_AGENTS[(k-1) mod 7], also for concurrent callers, and
\* current_index stays within 0..6.
\* ------------------------------------------------------------------------
C22_RoundRobin ==
    /\ \A k \in DOMAIN ua_log : ua_log[k] = AgentAt((k - 1) % 7)
    /\ current_index \in 0..6

\* the whole pool has been handed out once, and the call that wraps around
\* holds the lock while a second thread waits for it
C22_Witness ==
    /\ Len(ua_log) >= Len(USER_AGENTS)
    /\ \E t, u \in Threads : ua_lock = t /\ ua_pc[t] = "advanced" /\ ua_pc[u] = "waiting"

\* ------------------------------------------------------------------------
\* C23: every wait_if_needed() call that returns has slept a jitter within
\* [min_delay, max_delay] and has appended exactly one admission timestamp
\* to the request window, on every path, the one that first waited out an
\* active backoff included.
\* ------------------------------------------------------------------------
InsideWait == {"w_backoff", "w_window", "w_jitter"}

C23_ReturnAppends ==
    [][\A t \in Threads :
          (tpc[t] \in InsideWait /\ tpc'[t] = "idle") =>
              /\ tpc[t] = "w_jitter"
              /\ request_times' = Append(request_times, now')]_vars

\* ------------------------------------------------------------------------
\* C24: within one provider adapter call the variants are tried in the order
\* .TW, .TWO and the first variant whose reply has one row or more wins: its
\* rows are returned and no later variant or tier is queried.
\* ------------------------------------------------------------------------
C24_FirstVariantWins ==
    Downloads >= 1 =>
        /\ trace[2] = "yf.TW"
        /\ \A i \in DOMAIN trace : trace[i] \notin {"yf.TWO", "finmind"}
        /\ u_pc = "done" => u_ret.src = "yf.TW"

C26_FreshOnly == d_op.hit => d_op.age < 300

\* ------------------------------------------------------------------------
\* C30: an empty result is never cached: every entry of the shared
\* CacheManager written by the Enhanced fetcher and every entry of the
\* per-instance cache of data_fetcher.py is a non-empty series.
\* ------------------------------------------------------------------------
C30_NoEmptyCached ==
    /\ \A k \in DOMAIN cache : ~IsEmpty(cache[k].data)
    /\ \A k \in DOMAIN d_cache : ~IsEmpty(d_cache[k].data)

\* ------------------------------------------------------------------------
\* C27: after any sequence of add_price calls on a Stock created with an
\* empty history, price_history is strictly ascending by date and holds at
\* most one entry per trading date, so that get_price_on_date(d) has one
\* candidate at most.
\* ------------------------------------------------------------------------
C27_OnePerDate ==
    /\ \A i, j \in DOMAIN price_history :
           i < j => DateOf(price_history[i].date) < DateOf(price_history[j].date)
    /\ \A d \in Stamps : Cardinality(OnDate(price_history, d)) <= 1

\* ------------------------------------------------------------------------
\* C28: after any sequence of wait_if_needed(), record_429_error() and
\* reset() calls, from one or many threads, the request window never holds
\* more than max_requests timestamps and they are in non-decreasing order.
\* ------------------------------------------------------------------------
C28_WindowBounded ==
    /\ Len(request_times) <= max_requests
    /\ \A i, j \in DOMAIN request_times : i < j => request_times[i] <= request_times[j]

\* the window is at its capacity and a caller sleeps until its oldest
\* timestamp has left it
C28_Witness ==
    /\ Len(request_times) = max_requests
    /\ \E t \in Threads : tpc[t] = "w_window" /\ tWake[t] > request_times[1] + time_window

\* ------------------------------------------------------------------------
\* C29: the limiter's mutex is held for the whole of wait_if_needed(), its
\* sleeps included: while a caller sleeps inside it, no other thread's
\* wait_if_needed(), record_429_error() or reset() takes effect, so a 429
\* signalled meanwhile cannot delay the sleeping caller.
\* ------------------------------------------------------------------------
C29_HeldThroughSleep ==
    [][\A t \in Threads :
          tpc[t] \in InsideWait =>
              /\ lock = t
              /\ backoff_until' = backoff_until
              /\ last_429_time' = last_429_time
              /\ tpc'[t] = tpc[t] => (request_times' = request_times /\ tWake'[t] = tWake[t])
              /\ \A u \in Threads \ {t} : tpc'[u] \notin InsideWait]_vars

\* a caller sleeps out a backoff inside wait_if_needed() while another
\* thread is queued for the lock
C29_Witness ==
    \E t, u \in Threads :
        /\ tpc[t] = "w_backoff" /\ lock = t /\ now < tWake[t]
        /\ tpc[u] = "w_lock"

====
